---- MODULE Spec2Model ----
(***************************************************************************)
(* Flood-detection front end (src/src/App.tsx): the React component App,   *)
(* its state, its three asynchronous handlers (handleFileChange,           *)
(* loadRealRoadData, calculateFloodArea), the synchronous road classifier  *)
(* analyzeRoadImpact and the toggleOverlay / refreshRoadData buttons.      *)
(*                                                                         *)
(* Conventions                                                             *)
(*  - A nullable React state (T | null) is a set with at most one element: *)
(*    {} is null, {v} is the value v.                                      *)
(*  - Coordinates, resolutions and pixel values are integers.  Every       *)
(*    bounding box used below has extents that are powers of two, so the   *)
(*    IEEE-754 expression (lng - minX) / (maxX - minX) * width is exact    *)
(*    and Math.floor of it is the integer floor division used here.        *)
(*  - A handler invoked from a render reads the state of THAT render: the  *)
(*    closure it runs in is recorded in the process record (field cl) and  *)
(*    is what the code after an await still reads.                         *)
(*  - The Leaflet map exists (useEffect of lines 42-63 has run), so the    *)
(*    `!mapInstance` early returns never fire, and the canvas gives a 2D   *)
(*    context (the else branch of line 289 is not taken).                  *)
(*  - Consecutive setState calls with no await between them are one step;  *)
(*    consecutive awaits with no state access between them are one step.   *)
(***************************************************************************)
EXTENDS Integers, Sequences, FiniteSets, TLC

VARIABLES
    geoTiff,            \* App.tsx:25  the parsed file, {} = null
    imageMetadata,      \* App.tsx:26  metadata record, {} = null
    imageOverlay,       \* App.tsx:28  id of the overlay object, 0 = null
    overlayVisible,     \* App.tsx:29
    roadLayers,         \* App.tsx:30  id of the road layer object, 0 = null
    affectedRoads,      \* App.tsx:32
    nearFloodRoads,     \* App.tsx:33
    floodPixelData,     \* App.tsx:34  the Uint8Array mask, {} = null
    floodBounds,        \* App.tsx:35  L.LatLngBounds, {} = null
    floodAreaDisplay,   \* App.tsx:37
    mapLayers,          \* the layers currently on the Leaflet map
    uploads,            \* handleFileChange invocations, in start order
    loads,              \* loadRealRoadData invocations, in start order
    areas               \* calculateFloodArea invocations, in start order

vars == << geoTiff, imageMetadata, imageOverlay, overlayVisible, roadLayers,
           affectedRoads, nearFloodRoads, floodPixelData, floodBounds,
           floodAreaDisplay, mapLayers, uploads, loads, areas >>

(***************************************************************************)
(* Bounds of the model.                                                    *)
(***************************************************************************)
MaxVerts == 2       \* vertices per road in the exhaustive road family
MaxHazard == 1      \* hazard cells per mask in the exhaustive mask family
MaxUploads == 2     \* file uploads per behaviour
MaxRefresh == 1     \* clicks on "Refresh Road Data" per behaviour

(***************************************************************************)
(* Nullable values.                                                        *)
(***************************************************************************)
Val(o) == CHOOSE x \in o : TRUE

SeqToSet(s) == { s[i] : i \in 1..Len(s) }

Abs(n) == IF n < 0 THEN -n ELSE n

(***************************************************************************)
(* L.latLngBounds(boundsLatLng) of lines 215-220: the two corners          *)
(* [bounds[1], bounds[0]] and [bounds[3], bounds[2]] extend an empty       *)
(* bounds object, which keeps the minimum and maximum of each coordinate.  *)
(***************************************************************************)
Min2(a, b) == IF a <= b THEN a ELSE b
Max2(a, b) == IF a >= b THEN a ELSE b

latLngBounds(b) ==
    [ south |-> Min2(b[2], b[4]), west |-> Min2(b[1], b[3]),
      north |-> Max2(b[2], b[4]), east |-> Max2(b[1], b[3]) ]

(***************************************************************************)
(* floodBounds.contains(point), line 332: Leaflet's test is inclusive on   *)
(* all four edges.  A point is <<lng, lat>> (GeoJSON order).               *)
(***************************************************************************)
containsAlways(fb, point) == TRUE

contains(fb, point) ==
    /\ point[2] >= fb.south /\ point[2] <= fb.north
    /\ point[1] >= fb.west  /\ point[1] <= fb.east

(***************************************************************************)
(* Lines 335-342: the vertex's pixel.  With a zero-extent bounding box the *)
(* only contained longitudes (latitudes) give 0/0 = NaN, which makes       *)
(* pixelX (pixelY) and the pixel index NaN; nan records that.              *)
(***************************************************************************)
toPixel(point, md) ==
    LET extX == md.bounds[3] - md.bounds[1]
        extY == md.bounds[4] - md.bounds[2]
    IN  [ nan    |-> (extX = 0) \/ (extY = 0),
          pixelX |-> IF extX = 0 THEN 0
                     ELSE ((point[1] - md.bounds[1]) * md.width) \div extX,
          pixelY |-> IF extY = 0 THEN 0
                     ELSE ((extY - (point[2] - md.bounds[2])) * md.height) \div extY ]

(***************************************************************************)
(* Lines 342-345 and 352-353: the index y * width + x is tested against    *)
(* the buffer length, and the buffer (0-based in the code, 1-based here)   *)
(* is read there.  Any comparison with NaN is false.                       *)
(***************************************************************************)
floodAt(x, y, nan, mask, md) ==
    LET idx == y * md.width + x
    IN  /\ ~nan
        /\ idx >= 0 /\ idx < Len(mask)
        /\ mask[idx + 1] = 1

bufferPixels == 5

(***************************************************************************)
(* Lines 350-366: the square of offsets around the vertex's pixel.         *)
(***************************************************************************)
checkNearbySquare(px, mask, md) ==
    \E dx \in (0 - bufferPixels)..bufferPixels :
        \E dy \in (0 - bufferPixels)..bufferPixels :
            floodAt(px.pixelX + dx, px.pixelY + dy, px.nan, mask, md)

(***************************************************************************)
(* Lines 326-367: the scan of one road's vertices, in order, from vertex i *)
(* with the isNearFlood flag accumulated so far.  A hit ends the scan.     *)
(***************************************************************************)
RECURSIVE scanPoints(_, _, _, _, _, _)
scanPoints(roadLine, i, isNearFlood, mask, fb, md) ==
    IF i > Len(roadLine)
    THEN [ isInFlood |-> FALSE, isNearFlood |-> isNearFlood ]
    ELSE LET point == roadLine[i]
             px    == toPixel(point, md)
         IN  IF ~contains(fb, point)
             THEN scanPoints(roadLine, i + 1, isNearFlood, mask, fb, md)
             ELSE IF floodAt(px.pixelX, px.pixelY, px.nan, mask, md)
             THEN [ isInFlood |-> TRUE, isNearFlood |-> isNearFlood ]
             ELSE scanPoints(roadLine, i + 1,
                             isNearFlood \/ checkNearbySquare(px, mask, md),
                             mask, fb, md)

scanFirstOnly(roadLine, mask, fb, md) ==
    scanPoints(SubSeq(roadLine, 1, Min2(1, Len(roadLine))), 1, FALSE, mask, fb, md)

scanRoad(roadLine, mask, fb, md) ==
    scanPoints(roadLine, 1, FALSE, mask, fb, md)

(***************************************************************************)
(* Lines 369-376: which list the road's feature is pushed to.              *)
(***************************************************************************)
pushBoth(flags) ==
    [ affected |-> flags.isInFlood, near |-> flags.isNearFlood ]

pushLists(flags) ==
    [ affected |-> flags.isInFlood,
      near     |-> ~flags.isInFlood /\ flags.isNearFlood ]

(***************************************************************************)
(* Lines 309-385: analyzeRoadImpact.  The layer is the sequence of its     *)
(* features, each [id, coords]; eachLayer visits them in insertion order   *)
(* and the two lists are published together.                               *)
(***************************************************************************)
analyzeAccumulating(roadsLayer, mask, fb, md) ==
    LET Pushed(f) == pushLists(scanRoad(f.coords, mask, fb, md))
        InList(f)   == Pushed(f).affected
        NearList(f) == Pushed(f).near
    IN  [ affectedRoadsList  |-> affectedRoads \o SelectSeq(roadsLayer, InList),
          nearFloodRoadsList |-> nearFloodRoads \o SelectSeq(roadsLayer, NearList) ]

analyzeRoadImpact(roadsLayer, mask, fb, md) ==
    LET Pushed(f) == pushLists(scanRoad(f.coords, mask, fb, md))
        InList(f)   == Pushed(f).affected
        NearList(f) == Pushed(f).near
    IN  [ affectedRoadsList  |-> SelectSeq(roadsLayer, InList),
          nearFloodRoadsList |-> SelectSeq(roadsLayer, NearList) ]

(***************************************************************************)
(* Lines 369-376: layer.setStyle.  The classifier recolours the Leaflet     *)
(* layer of a road it pushes to a list; the other layers keep the style of *)
(* lines 111-124.  The style belongs to the layer, not to its feature.     *)
(***************************************************************************)
initialStyles(roadsLayer) == [ i \in 1..Len(roadsLayer) |-> "initial" ]

roadStyles(roadsLayer, mask, fb, md) ==
    [ i \in 1..Len(roadsLayer) |->
        LET pushed == pushLists(scanRoad(roadsLayer[i].coords, mask, fb, md))
        IN  IF pushed.affected THEN "#ff0000"
            ELSE IF pushed.near THEN "#ff7800"
            ELSE "initial" ]

(***************************************************************************)
(* Lines 146-188: processOSMtoGeoJSON.  An Overpass answer is [nodes,      *)
(* ways]: nodes is a function from the ids of its node elements to         *)
(* <<lon, lat>>; a way is [id, nodes, highway], highway telling whether    *)
(* it carries a highway tag.  Ways without the tag are dropped and node    *)
(* ids the answer does not contain are filtered out of the coordinates.    *)
(***************************************************************************)
wayCoordinates(way, nodes) ==
    LET Known(nodeId) == nodeId \in DOMAIN nodes
        known == SelectSeq(way.nodes, Known)
    IN  [ i \in 1..Len(known) |-> nodes[known[i]] ]

processOSMtoGeoJSON(osmData) ==
    LET Tagged(way) == way.highway
        ways == SelectSeq(osmData.ways, Tagged)
    IN  [ i \in 1..Len(ways) |->
            [ id |-> ways[i].id, coords |-> wayCoordinates(ways[i], osmData.nodes) ] ]

(***************************************************************************)
(* Lines 199-207: the metadata built from the parsed image.  A file is     *)
(* [name, parses, reads, width, height, bounds, crs, resolution, scalar,   *)
(* band0]: parses / reads tell whether fromArrayBuffer+getImage and        *)
(* readRasters succeed on it, scalar whether rasters[0] is a bare number   *)
(* (band0 is then the one-element sequence of that number).                *)
(***************************************************************************)
metadataOf(file) ==
    [ width |-> file.width, height |-> file.height, bounds |-> file.bounds,
      crs |-> file.crs, resolution |-> file.resolution ]

(***************************************************************************)
(* Lines 230-233: the Uint8Array built from band 0.                        *)
(***************************************************************************)
floodMaskNonZero(bandData) ==
    [ i \in 1..Len(bandData) |-> IF bandData[i] # 0 THEN 1 ELSE 0 ]

floodMaskArray(bandData) ==
    [ i \in 1..Len(bandData) |-> IF bandData[i] = 1 THEN 1 ELSE 0 ]

(***************************************************************************)
(* Lines 402-417: the area computation.  floodAreaKm2 is kept as the       *)
(* exact fraction num / den; toFixed(2) rounds it to hundredths (ties      *)
(* upwards; no input used below produces a tie).  A resolution with fewer  *)
(* than two components multiplies with undefined, which gives NaN.         *)
(***************************************************************************)
RECURSIVE countFrom(_, _)
countFrom(bandData, i) ==
    IF i > Len(bandData) THEN 0
    ELSE (IF bandData[i] = 1 THEN 1 ELSE 0) + countFrom(bandData, i + 1)

floodPixelCount(bandData) == countFrom(bandData, 1)

pixelAreaSigned(md) == md.resolution[1] * md.resolution[2]

pixelArea(md) == Abs(md.resolution[1] * md.resolution[2])

SquareMetresPerKm2 == 1000000

floodAreaKm2(bandData, md) ==
    [ num |-> floodPixelCount(bandData) * pixelArea(md), den |-> SquareMetresPerKm2 ]

toFixed2(q) == (q.num * 200 + q.den) \div (2 * q.den)

areaDisplay(bandData, md) ==
    IF Len(md.resolution) < 2
    THEN [ kind |-> "NaN", hundredths |-> 0 ]
    ELSE [ kind |-> "km2", hundredths |-> toFixed2(floodAreaKm2(bandData, md)) ]

(***************************************************************************)
(* The state a handler created by the current render closes over.          *)
(***************************************************************************)
Closure ==
    [ geoTiff |-> geoTiff, imageMetadata |-> imageMetadata,
      imageOverlay |-> imageOverlay, roadLayers |-> roadLayers,
      floodPixelData |-> floodPixelData, floodBounds |-> floodBounds ]

Overlay(id) == << "overlay", id >>
Roads(id)   == << "roads", id >>

(***************************************************************************)
(* Inputs of the application model: the files a user can pick and the      *)
(* answers the Overpass service can give.                                  *)
(***************************************************************************)
FileA ==
    [ name |-> "A", parses |-> TRUE, reads |-> TRUE,
      width |-> 7, height |-> 2, bounds |-> << 0, 0, 8, 2 >>,
      crs |-> "Unknown", resolution |-> << 100, -100 >>, scalar |-> FALSE,
      band0 |-> << 0, 0, 0, 0, 0, 1, 2,
                   1, 0, 0, 0, 0, 0, 255 >> ]

FileB ==
    [ name |-> "B", parses |-> TRUE, reads |-> TRUE,
      width |-> 3, height |-> 3, bounds |-> << 0, 0, 4, 4 >>,
      crs |-> "EPSG:32633", resolution |-> << 50, -50 >>, scalar |-> FALSE,
      band0 |-> << 1, 1, 0,
                   0, 1, 0,
                   0, 0, 0 >> ]

FileS ==
    [ name |-> "S", parses |-> TRUE, reads |-> TRUE,
      width |-> 2, height |-> 2, bounds |-> << 0, 0, 2, 2 >>,
      crs |-> "Unknown", resolution |-> << 1, -1 >>, scalar |-> TRUE,
      band0 |-> << 1 >> ]

FileR ==
    [ name |-> "R", parses |-> TRUE, reads |-> FALSE,
      width |-> 2, height |-> 1, bounds |-> << 0, 0, 2, 1 >>,
      crs |-> "Unknown", resolution |-> << 1, -1 >>, scalar |-> FALSE,
      band0 |-> << 0, 0 >> ]

FileX ==
    [ name |-> "X", parses |-> FALSE, reads |-> FALSE,
      width |-> 1, height |-> 1, bounds |-> << 0, 0, 1, 1 >>,
      crs |-> "Unknown", resolution |-> << 1, -1 >>, scalar |-> FALSE,
      band0 |-> << 0 >> ]

\* A raster whose bounding box has zero width (maxX = minX), every cell hazard.
FileD ==
    [ name |-> "D", parses |-> TRUE, reads |-> TRUE,
      width |-> 2, height |-> 2, bounds |-> << 4, 0, 4, 2 >>,
      crs |-> "Unknown", resolution |-> << 0, -1 >>, scalar |-> FALSE,
      band0 |-> << 1, 1, 1, 1 >> ]

Files == { FileA, FileB, FileS, FileR, FileX, FileD }

OsmTown ==
    [ nodes |-> [ n \in 1..4 |->
                    CASE n = 1 -> << 0, 2 >>
                      [] n = 2 -> << 4, 1 >>
                      [] n = 3 -> << 8, 2 >>
                      [] n = 4 -> << 12, 3 >> ],
      ways  |-> << [ id |-> 1, nodes |-> << 1, 2 >>, highway |-> TRUE ],
                   [ id |-> 2, nodes |-> << 3, 9 >>, highway |-> TRUE ],
                   [ id |-> 3, nodes |-> << 1 >>, highway |-> FALSE ],
                   [ id |-> 4, nodes |-> << 4 >>, highway |-> TRUE ] >> ]

OsmAnswers == { OsmTown }

(***************************************************************************)
(* Lines 25-37: the state after construction, the map mounted.             *)
(***************************************************************************)
NotAvailable == [ kind |-> "N/A", hundredths |-> 0 ]

Init ==
    /\ geoTiff = {}
    /\ imageMetadata = {}
    /\ imageOverlay = 0
    /\ overlayVisible = TRUE
    /\ roadLayers = 0
    /\ affectedRoads = << >>
    /\ nearFloodRoads = << >>
    /\ floodPixelData = {}
    /\ floodBounds = {}
    /\ floodAreaDisplay = NotAvailable
    /\ mapLayers = {}
    /\ uploads = << >>
    /\ loads = << >>
    /\ areas = << >>

(***************************************************************************)
(* Lines 190-195: the user picks a file; handleFileChange of the current   *)
(* render starts and suspends at its first await.                          *)
(***************************************************************************)
handleFileChange(file) ==
    /\ Len(uploads) < MaxUploads
    /\ uploads' = Append(uploads, [ pc |-> "parse", file |-> file, cl |-> Closure ])
    /\ UNCHANGED << geoTiff, imageMetadata, imageOverlay, overlayVisible, roadLayers,
                    affectedRoads, nearFloodRoads, floodPixelData, floodBounds,
                    floodAreaDisplay, mapLayers, loads, areas >>

(***************************************************************************)
(* Lines 294-305: the catch block of upload u.  It tests the imageOverlay  *)
(* of the render the handler was created in.                               *)
(***************************************************************************)
uploadCatch(u) ==
    /\ geoTiff' = {}
    /\ imageMetadata' = {}
    /\ IF uploads[u].cl.imageOverlay # 0
       THEN /\ mapLayers' = mapLayers \ { Overlay(uploads[u].cl.imageOverlay) }
            /\ imageOverlay' = 0
       ELSE UNCHANGED << mapLayers, imageOverlay >>
    /\ uploads' = [ uploads EXCEPT ![u].pc = "failed" ]

(***************************************************************************)
(* Lines 195-224: arrayBuffer, fromArrayBuffer and getImage have settled.  *)
(* On success the metadata, the tiff and the bounds are stored and the     *)
(* handler suspends in readRasters; a rejection runs the catch block.      *)
(***************************************************************************)
uploadParsed(u) ==
    /\ u \in 1..Len(uploads)
    /\ uploads[u].pc = "parse"
    /\ IF uploads[u].file.parses
       THEN /\ geoTiff' = { uploads[u].file }
            /\ imageMetadata' = { metadataOf(uploads[u].file) }
            /\ floodBounds' = { latLngBounds(metadataOf(uploads[u].file).bounds) }
            /\ uploads' = [ uploads EXCEPT ![u].pc = "read" ]
            /\ UNCHANGED << imageOverlay, mapLayers >>
       ELSE /\ uploadCatch(u)
            /\ UNCHANGED floodBounds
    /\ UNCHANGED << overlayVisible, roadLayers, affectedRoads, nearFloodRoads,
                    floodPixelData, floodAreaDisplay, loads, areas >>

(***************************************************************************)
(* Lines 66-93 as called from line 285 or 438: loadRealRoadData of the     *)
(* render with closure cl starts and suspends in fetch.                    *)
(***************************************************************************)
startLoad(cl, by) ==
    Append(loads, [ pc |-> "fetch", by |-> by, cl |-> cl,
                    layer |-> << >>, style |-> << >>, analysed |-> FALSE ])

(***************************************************************************)
(* Lines 388-392 as called from line 288: calculateFloodArea of the render *)
(* with closure cl returns at once when that render had no metadata or no  *)
(* tiff, and otherwise suspends in getImage / readRasters.                 *)
(***************************************************************************)
startArea(cl, by) ==
    IF cl.imageMetadata = {} \/ cl.geoTiff = {}
    THEN areas
    ELSE Append(areas, [ pc |-> "read", by |-> by, cl |-> cl, km2 |-> {} ])

(***************************************************************************)
(* Lines 224-292: readRasters has settled.  The mask is stored unless band *)
(* 0 is a bare number; the overlay of the handler's render is removed and  *)
(* a new one is added to the map; loadRealRoadData and calculateFloodArea  *)
(* of the handler's render are called.  A rejection runs the catch block.  *)
(***************************************************************************)
uploadRead(u) ==
    /\ u \in 1..Len(uploads)
    /\ uploads[u].pc = "read"
    /\ IF uploads[u].file.reads
       THEN /\ floodPixelData' = IF uploads[u].file.scalar
                                 THEN floodPixelData
                                 ELSE { floodMaskArray(uploads[u].file.band0) }
            /\ mapLayers' = (mapLayers \ { Overlay(uploads[u].cl.imageOverlay) })
                                \cup { Overlay(u) }
            /\ imageOverlay' = u
            /\ loads' = startLoad(uploads[u].cl, u)
            /\ areas' = startArea(uploads[u].cl, u)
            /\ uploads' = [ uploads EXCEPT ![u].pc = "done" ]
            /\ UNCHANGED << geoTiff, imageMetadata >>
       ELSE /\ uploadCatch(u)
            /\ UNCHANGED << floodPixelData, loads, areas >>
    /\ UNCHANGED << overlayVisible, roadLayers, affectedRoads, nearFloodRoads,
                    floodBounds, floodAreaDisplay >>

(***************************************************************************)
(* Lines 95-97 and 139-142: the fetch of load l rejected or answered with  *)
(* an error status; the catch block only alerts.                           *)
(***************************************************************************)
loadFailed(l) ==
    /\ l \in 1..Len(loads)
    /\ loads[l].pc = "fetch"
    /\ loads' = [ loads EXCEPT ![l].pc = "failed" ]
    /\ UNCHANGED << geoTiff, imageMetadata, imageOverlay, overlayVisible, roadLayers,
                    affectedRoads, nearFloodRoads, floodPixelData, floodBounds,
                    floodAreaDisplay, mapLayers, uploads, areas >>

(***************************************************************************)
(* Lines 99-137: the fetch of load l answered with osmData.  The road      *)
(* layer of the handler's render is removed, the new layer is added and    *)
(* stored, and the roads are classified (and their layers recoloured)      *)
(* against the mask, bounds and metadata of the handler's render when that *)
(* render had all three.                                                   *)
(***************************************************************************)
loadFetched(l, osmData) ==
    /\ l \in 1..Len(loads)
    /\ loads[l].pc = "fetch"
    /\ LET cl == loads[l].cl
           roadsGeoJSON == processOSMtoGeoJSON(osmData)
           analyse == cl.floodPixelData # {} /\ cl.floodBounds # {}
                        /\ cl.imageMetadata # {}
       IN  /\ mapLayers' = (mapLayers \ { Roads(cl.roadLayers) }) \cup { Roads(l) }
           /\ roadLayers' = l
           /\ IF analyse
              THEN LET res == analyzeRoadImpact(roadsGeoJSON, Val(cl.floodPixelData),
                                                Val(cl.floodBounds),
                                                Val(cl.imageMetadata))
                   IN  /\ affectedRoads' = res.affectedRoadsList
                       /\ nearFloodRoads' = res.nearFloodRoadsList
              ELSE UNCHANGED << affectedRoads, nearFloodRoads >>
           /\ loads' = [ loads EXCEPT
                          ![l].pc = "done",
                          ![l].layer = roadsGeoJSON,
                          ![l].style = IF analyse
                                       THEN roadStyles(roadsGeoJSON, Val(cl.floodPixelData),
                                                       Val(cl.floodBounds),
                                                       Val(cl.imageMetadata))
                                       ELSE initialStyles(roadsGeoJSON),
                          ![l].analysed = analyse ]
    /\ UNCHANGED << geoTiff, imageMetadata, imageOverlay, overlayVisible,
                    floodPixelData, floodBounds, floodAreaDisplay, uploads, areas >>

(***************************************************************************)
(* Lines 392-421: getImage and readRasters of area run a have settled, on  *)
(* the tiff and the metadata of the handler's render.                      *)
(***************************************************************************)
areaReadResetting(a) ==
    /\ a \in 1..Len(areas)
    /\ areas[a].pc = "read"
    /\ LET tiff == Val(areas[a].cl.geoTiff)
           md   == Val(areas[a].cl.imageMetadata)
       IN  IF ~tiff.reads \/ tiff.scalar
           THEN /\ floodAreaDisplay' =
                       [ kind |-> IF tiff.reads THEN "Cannot calculate (invalid data)"
                                  ELSE "Calculation error", hundredths |-> 0 ]
                /\ areas' = [ areas EXCEPT ![a].pc = IF tiff.reads THEN "invalid"
                                                      ELSE "failed" ]
                /\ geoTiff' = {}
                /\ imageMetadata' = {}
           ELSE /\ floodAreaDisplay' = areaDisplay(tiff.band0, md)
                /\ areas' = [ areas EXCEPT ![a].pc = "done",
                                           ![a].km2 = IF Len(md.resolution) < 2 THEN {}
                                                      ELSE { floodAreaKm2(tiff.band0, md) } ]
                /\ UNCHANGED << geoTiff, imageMetadata >>
    /\ UNCHANGED << imageOverlay, overlayVisible, roadLayers,
                    affectedRoads, nearFloodRoads, floodPixelData, floodBounds,
                    mapLayers, uploads, loads >>

areaRead(a) ==
    /\ a \in 1..Len(areas)
    /\ areas[a].pc = "read"
    /\ LET tiff == Val(areas[a].cl.geoTiff)
           md   == Val(areas[a].cl.imageMetadata)
       IN  IF ~tiff.reads
           THEN /\ floodAreaDisplay' = [ kind |-> "Calculation error", hundredths |-> 0 ]
                /\ areas' = [ areas EXCEPT ![a].pc = "failed" ]
           ELSE IF tiff.scalar
           THEN /\ floodAreaDisplay' =
                       [ kind |-> "Cannot calculate (invalid data)", hundredths |-> 0 ]
                /\ areas' = [ areas EXCEPT ![a].pc = "invalid" ]
           ELSE /\ floodAreaDisplay' = areaDisplay(tiff.band0, md)
                /\ areas' = [ areas EXCEPT ![a].pc = "done",
                                           ![a].km2 = IF Len(md.resolution) < 2 THEN {}
                                                      ELSE { floodAreaKm2(tiff.band0, md) } ]
    /\ UNCHANGED << geoTiff, imageMetadata, imageOverlay, overlayVisible, roadLayers,
                    affectedRoads, nearFloodRoads, floodPixelData, floodBounds,
                    mapLayers, uploads, loads >>

(***************************************************************************)
(* Lines 424-434: the overlay button, rendered when imageOverlay is set.   *)
(***************************************************************************)
toggleOverlay ==
    /\ imageOverlay # 0
    /\ IF overlayVisible
       THEN /\ mapLayers' = mapLayers \ { Overlay(imageOverlay) }
            /\ overlayVisible' = FALSE
       ELSE /\ mapLayers' = mapLayers \cup { Overlay(imageOverlay) }
            /\ overlayVisible' = TRUE
    /\ UNCHANGED << geoTiff, imageMetadata, imageOverlay, roadLayers, affectedRoads,
                    nearFloodRoads, floodPixelData, floodBounds, floodAreaDisplay,
                    uploads, loads, areas >>

(***************************************************************************)
(* Lines 436-439: the "Refresh Road Data" button.                          *)
(***************************************************************************)
Refreshes == Cardinality({ l \in 1..Len(loads) : loads[l].by = 0 })

refreshRoadData ==
    /\ Refreshes < MaxRefresh
    /\ loads' = startLoad(Closure, 0)
    /\ UNCHANGED << geoTiff, imageMetadata, imageOverlay, overlayVisible, roadLayers,
                    affectedRoads, nearFloodRoads, floodPixelData, floodBounds,
                    floodAreaDisplay, mapLayers, uploads, areas >>

Next ==
    \/ \E file \in Files : handleFileChange(file)
    \/ \E u \in 1..MaxUploads : uploadParsed(u)
    \/ \E u \in 1..MaxUploads : uploadRead(u)
    \/ \E l \in 1..(MaxUploads + MaxRefresh) : loadFailed(l)
    \/ \E l \in 1..(MaxUploads + MaxRefresh) : \E osmData \in OsmAnswers :
           loadFetched(l, osmData)
    \/ \E a \in 1..MaxUploads : areaRead(a)
    \/ toggleOverlay
    \/ refreshRoadData

Spec == Init /\ [][Next]_vars

(***************************************************************************)
(* The classifier on exhaustive inputs.  ClassifySpec starts in the state  *)
(* the application is in after a first upload of a raster has finished,    *)
(* the road load it started has failed, and the user has clicked "Refresh  *)
(* Road Data": the refresh load is pending with the raster's mask, bounds  *)
(* and metadata in its closure.  The raster ranges over two geometries and *)
(* every mask with at most MaxHazard hazard cells (and the all-hazard      *)
(* mask); the Overpass answer over every road of at most MaxVerts vertices *)
(* on a lattice of points inside, on the edges of and outside the boxes.   *)
(***************************************************************************)
RECURSIVE HazardSets(_, _)
HazardSets(n, k) ==
    IF k = 0 THEN { {} }
    ELSE LET prev == HazardSets(n, k - 1)
         IN  prev \cup { S \cup { c } : S \in prev, c \in 1..n }

BandsOf(n) ==
    { [ i \in 1..n |-> IF i \in S THEN 1 ELSE 0 ] :
        S \in HazardSets(n, MaxHazard) \cup { 1..n } }

Geometries ==
    { [ width |-> 7, height |-> 2, bounds |-> << 0, 0, 8, 2 >> ],
      [ width |-> 2, height |-> 3, bounds |-> << 0, 0, 4, 4 >> ] }

ClassifyFile(g, b) ==
    [ name |-> "G", parses |-> TRUE, reads |-> TRUE,
      width |-> g.width, height |-> g.height, bounds |-> g.bounds,
      crs |-> "Unknown", resolution |-> << 1, -1 >>, scalar |-> FALSE,
      band0 |-> b ]

ClassifyFiles ==
    UNION { { ClassifyFile(g, b) : b \in BandsOf(g.width * g.height) } :
              g \in Geometries }

Points == { << lng, lat >> : lng \in { -4, 0, 4, 8 }, lat \in { 1, 2, 3 } }

RECURSIVE RoadLines(_)
RoadLines(n) ==
    IF n = 0 THEN { << >> }
    ELSE LET prev == RoadLines(n - 1)
         IN  prev \cup { Append(r, p) : r \in { q \in prev : Len(q) = n - 1 }, p \in Points }

ClassifyAnswers ==
    { [ nodes |-> r, ways |-> << [ id |-> 1, nodes |-> [ i \in 1..Len(r) |-> i ],
                                   highway |-> TRUE ] >> ] : r \in RoadLines(MaxVerts) }

NullClosure ==
    [ geoTiff |-> {}, imageMetadata |-> {}, imageOverlay |-> 0, roadLayers |-> 0,
      floodPixelData |-> {}, floodBounds |-> {} ]

InitClassify ==
    \E file \in ClassifyFiles :
        /\ geoTiff = { file }
        /\ imageMetadata = { metadataOf(file) }
        /\ imageOverlay = 1
        /\ overlayVisible = TRUE
        /\ roadLayers = 0
        /\ affectedRoads = << >>
        /\ nearFloodRoads = << >>
        /\ floodPixelData = { floodMaskArray(file.band0) }
        /\ floodBounds = { latLngBounds(file.bounds) }
        /\ floodAreaDisplay = NotAvailable
        /\ mapLayers = { Overlay(1) }
        /\ uploads = << [ pc |-> "done", file |-> file, cl |-> NullClosure ] >>
        /\ loads = << [ pc |-> "failed", by |-> 1, cl |-> NullClosure,
                        layer |-> << >>, style |-> << >>, analysed |-> FALSE ],
                      [ pc |-> "fetch", by |-> 0,
                        cl |-> [ geoTiff |-> { file },
                                 imageMetadata |-> { metadataOf(file) },
                                 imageOverlay |-> 1, roadLayers |-> 0,
                                 floodPixelData |-> { floodMaskArray(file.band0) },
                                 floodBounds |-> { latLngBounds(file.bounds) } ],
                        layer |-> << >>, style |-> << >>, analysed |-> FALSE ] >>
        /\ areas = << >>

NextClassify ==
    /\ loads[2].pc = "fetch"
    /\ \E osmData \in ClassifyAnswers : loadFetched(2, osmData)

ClassifySpec == InitClassify /\ [][NextClassify]_vars

(***************************************************************************)
(* Vocabulary of the claims about classification.  A classification run is *)
(* a finished road load that called analyzeRoadImpact; its inputs are the  *)
(* layer it built and the mask and metadata of its closure.                *)
(***************************************************************************)
ClassificationRuns ==
    { l \in 1..Len(loads) : loads[l].pc = "done" /\ loads[l].analysed }

RunMask(l) == Val(loads[l].cl.floodPixelData)
RunMeta(l) == Val(loads[l].cl.imageMetadata)

InHazard(f)   == f \in SeqToSet(affectedRoads)
NearHazard(f) == f \in SeqToSet(nearFloodRoads)

InBox(point, md) ==
    /\ point[1] >= md.bounds[1] /\ point[1] <= md.bounds[3]
    /\ point[2] >= md.bounds[2] /\ point[2] <= md.bounds[4]

\* The cell (x, y) lies inside [0,W) x [0,H) and the mask is hazard-present there.
HazardCell(x, y, mask, md) ==
    /\ x >= 0 /\ x < md.width
    /\ y >= 0 /\ y < md.height
    /\ y * md.width + x < Len(mask)
    /\ mask[y * md.width + x + 1] = 1

\* The pixel the claims give a point inside a box of positive extents:
\* pixelX = floor((lon - minX) / (maxX - minX) * W), the k with
\* k <= (lon - minX) * W / (maxX - minX) < k + 1, and likewise
\* pixelY = floor((1 - (lat - minY) / (maxY - minY)) * H).
ClaimPixelX(point, md) ==
    CHOOSE k \in 0..md.width :
        /\ k * (md.bounds[3] - md.bounds[1]) <= (point[1] - md.bounds[1]) * md.width
        /\ (point[1] - md.bounds[1]) * md.width < (k + 1) * (md.bounds[3] - md.bounds[1])

ClaimPixelY(point, md) ==
    CHOOSE k \in 0..md.height :
        /\ k * (md.bounds[4] - md.bounds[2]) <= (md.bounds[4] - point[2]) * md.height
        /\ (md.bounds[4] - point[2]) * md.height < (k + 1) * (md.bounds[4] - md.bounds[2])

ProperBox(md) == md.bounds[3] > md.bounds[1] /\ md.bounds[4] > md.bounds[2]

\* Vertex i of feature f lies in the box and its own cell is a hazard cell.
VertexHits(f, i, mask, md) ==
    /\ ProperBox(md)
    /\ InBox(f.coords[i], md)
    /\ HazardCell(ClaimPixelX(f.coords[i], md), ClaimPixelY(f.coords[i], md), mask, md)

\* Vertex i of feature f lies in the box and some hazard cell (x, y) of the
\* grid lies within bufferPixels of its pixel in x and in y.
VertexNear(f, i, mask, md) ==
    /\ ProperBox(md)
    /\ InBox(f.coords[i], md)
    /\ \E x \in 0..(md.width - 1) : \E y \in 0..(md.height - 1) :
         /\ HazardCell(x, y, mask, md)
         /\ Abs(x - ClaimPixelX(f.coords[i], md)) <= bufferPixels
         /\ Abs(y - ClaimPixelY(f.coords[i], md)) <= bufferPixels

\* C1: in a classification run, a road with at least one vertex inside the
\* bounding box whose own pixel is an in-grid hazard cell is in the in-hazard
\* list, whatever its other vertices are and wherever that vertex sits.
C1_SingleHitSuffices ==
    \A l \in ClassificationRuns :
        Cardinality(ClassificationRuns) = 1 =>
            \A f \in SeqToSet(loads[l].layer) :
                (\E i \in 1..Len(f.coords) : VertexHits(f, i, RunMask(l), RunMeta(l)))
                    => InHazard(f)

\* C1 witness: a run classified a two-vertex road InHazard whose first vertex
\* is inside the box and misses, and whose second vertex hits.
C1_Witness ==
    \E l \in ClassificationRuns :
        \E f \in SeqToSet(loads[l].layer) :
            /\ Len(f.coords) = 2
            /\ InBox(f.coords[1], RunMeta(l))
            /\ ~VertexHits(f, 1, RunMask(l), RunMeta(l))
            /\ VertexHits(f, 2, RunMask(l), RunMeta(l))
            /\ InHazard(f)

\* C2 (as claimed): in a classification run, a road that is not InHazard is
\* in the near-hazard list if and only if one of its vertices inside the box
\* has a hazard cell of the grid within 5 cells of its pixel in x and in y;
\* so a road 6 cells from the only hazard cell is Unaffected.
C2_NearIffInGridNeighbour ==
    \A l \in ClassificationRuns :
        Cardinality(ClassificationRuns) = 1 =>
            \A f \in SeqToSet(loads[l].layer) :
                ~InHazard(f) =>
                    (NearHazard(f) <=>
                        \E i \in 1..Len(f.coords) :
                            VertexNear(f, i, RunMask(l), RunMeta(l)))

\* C3 (as claimed): a vertex on the maxX edge maps to pixelX = W and one on
\* the maxY edge to pixelY = 0, and a road is InHazard only through a vertex
\* whose own pixel lies inside [0,W) x [0,H) and is a hazard cell there: an
\* out-of-grid pixel never makes it InHazard.
C3_OutOfGridPixelExcluded ==
    \A l \in ClassificationRuns :
        Cardinality(ClassificationRuns) = 1 =>
            \A f \in SeqToSet(loads[l].layer) :
                /\ \A i \in 1..Len(f.coords) :
                     /\ f.coords[i][1] = RunMeta(l).bounds[3] =>
                            toPixel(f.coords[i], RunMeta(l)).pixelX = RunMeta(l).width
                     /\ f.coords[i][2] = RunMeta(l).bounds[4] =>
                            toPixel(f.coords[i], RunMeta(l)).pixelY = 0
                /\ InHazard(f) =>
                     \E i \in 1..Len(f.coords) : VertexHits(f, i, RunMask(l), RunMeta(l))

\* C4: in a classification run no road is in both lists, the lists hold only
\* roads of the classified layer, and a road with an earlier vertex that only
\* meets the neighbourhood condition and a later vertex on a hazard cell is
\* InHazard and not NearHazard.
C4_InHazardDominates ==
    \A l \in ClassificationRuns :
        Cardinality(ClassificationRuns) = 1 =>
            /\ SeqToSet(affectedRoads) \cup SeqToSet(nearFloodRoads)
                   \subseteq SeqToSet(loads[l].layer)
            /\ \A f \in SeqToSet(loads[l].layer) :
                 /\ ~(InHazard(f) /\ NearHazard(f))
                 /\ (\E j \in 1..Len(f.coords) : \E i \in 1..(j - 1) :
                        /\ VertexNear(f, i, RunMask(l), RunMeta(l))
                        /\ ~VertexHits(f, i, RunMask(l), RunMeta(l))
                        /\ VertexHits(f, j, RunMask(l), RunMeta(l)))
                      => (InHazard(f) /\ ~NearHazard(f))

\* C4 witness: a run classified a road whose first vertex is only near the
\* hazard and whose second vertex is on it; the road is in the in-hazard list.
C4_Witness ==
    \E l \in ClassificationRuns :
        \E f \in SeqToSet(loads[l].layer) :
            /\ Len(f.coords) = 2
            /\ VertexNear(f, 1, RunMask(l), RunMeta(l))
            /\ ~VertexHits(f, 1, RunMask(l), RunMeta(l))
            /\ VertexHits(f, 2, RunMask(l), RunMeta(l))
            /\ InHazard(f) /\ ~NearHazard(f)

\* C5: in a classification run a road all of whose vertices lie outside the
\* bounding box is in neither list, whatever the mask.
C5_OutsideBoxUnaffected ==
    \A l \in ClassificationRuns :
        Cardinality(ClassificationRuns) = 1 =>
            \A f \in SeqToSet(loads[l].layer) :
                (\A i \in 1..Len(f.coords) : ~InBox(f.coords[i], RunMeta(l)))
                    => (~InHazard(f) /\ ~NearHazard(f))

\* C5 witness: a run against an all-hazard mask classified a road with two
\* vertices, both outside the box, and left it out of both lists.
C5_Witness ==
    \E l \in ClassificationRuns :
        \E f \in SeqToSet(loads[l].layer) :
            /\ \A c \in 1..Len(RunMask(l)) : RunMask(l)[c] = 1
            /\ Len(f.coords) = 2
            /\ \A i \in 1..Len(f.coords) : ~InBox(f.coords[i], RunMeta(l))
            /\ ~InHazard(f) /\ ~NearHazard(f)

(***************************************************************************)
(* Sequential use: the user picks a file or clicks a button only when no   *)
(* handler is suspended.  Every behaviour of SeqSpec is a behaviour of     *)
(* Spec; an upload's closure is then the state right before the upload.    *)
(***************************************************************************)
Quiescent ==
    /\ \A u \in 1..Len(uploads) : uploads[u].pc \in { "done", "failed" }
    /\ \A l \in 1..Len(loads) : loads[l].pc # "fetch"
    /\ \A a \in 1..Len(areas) : areas[a].pc # "read"

NextSeq ==
    \/ Quiescent /\ \E file \in Files : handleFileChange(file)
    \/ Quiescent /\ refreshRoadData
    \/ Quiescent /\ toggleOverlay
    \/ \E u \in 1..MaxUploads : uploadParsed(u)
    \/ \E u \in 1..MaxUploads : uploadRead(u)
    \/ \E l \in 1..(MaxUploads + MaxRefresh) : loadFailed(l)
    \/ \E l \in 1..(MaxUploads + MaxRefresh) : \E osmData \in OsmAnswers :
           loadFetched(l, osmData)
    \/ \E a \in 1..MaxUploads : areaRead(a)

SeqSpec == Init /\ [][NextSeq]_vars

(***************************************************************************)
(* The decoder and the area computation on exhaustive inputs.  The first   *)
(* file of a behaviour of RasterSpec ranges over every 2x2 band over       *)
(* PixelValues with every resolution of Resolutions (zero components       *)
(* included), over the scalar bands, the 4x4 raster with the single hazard *)
(* cell (2,2) and a raster in geographic coordinates; a later upload       *)
(* (FileB) is what makes calculateFloodArea run on the first file.         *)
(* The road fetches the uploads start stay pending: they touch neither the *)
(* mask nor the area.                                                      *)
(***************************************************************************)
PixelValues == { 0, 1, 2, 255 }

Resolutions == { << 1, 1 >>, << 100, -100 >>, << -30, 20 >>, << 0, -100 >>, << 0, 0 >> }

RasterFile(b, r, scalar) ==
    [ name |-> "G", parses |-> TRUE, reads |-> TRUE,
      width |-> 2, height |-> 2, bounds |-> << 0, 0, 2, 2 >>,
      crs |-> "Unknown", resolution |-> r, scalar |-> scalar, band0 |-> b ]

FileOneCell ==
    [ name |-> "G", parses |-> TRUE, reads |-> TRUE,
      width |-> 4, height |-> 4, bounds |-> << 0, 0, 4, 4 >>,
      crs |-> "Unknown", resolution |-> << 1, 1 >>, scalar |-> FALSE,
      band0 |-> [ i \in 1..16 |-> IF i = 2 * 4 + 2 + 1 THEN 1 ELSE 0 ] ]

\* A raster in geographic coordinates: one degree per pixel, the bounding box
\* centred on the equator, three hazard cells.
FileGeo ==
    [ name |-> "G", parses |-> TRUE, reads |-> TRUE,
      width |-> 4, height |-> 4, bounds |-> << 0, -2, 4, 2 >>,
      crs |-> "EPSG:4326", resolution |-> << 1, -1 >>, scalar |-> FALSE,
      band0 |-> [ i \in 1..16 |-> IF i \in { 1, 6, 16 } THEN 1 ELSE 0 ] ]

RasterFiles ==
    { RasterFile(b, r, FALSE) : b \in [ 1..4 -> PixelValues ], r \in Resolutions }
        \cup { RasterFile(<< v >>, << 1, 1 >>, TRUE) : v \in PixelValues }
        \cup { FileOneCell, FileGeo }

NextRaster ==
    \/ \E file \in (IF uploads = << >> THEN RasterFiles ELSE { FileB }) :
           handleFileChange(file)
    \/ \E u \in 1..MaxUploads : uploadParsed(u)
    \/ \E u \in 1..MaxUploads : uploadRead(u)
    \/ \E a \in 1..MaxUploads : areaRead(a)

RasterSpec == Init /\ [][NextRaster]_vars

\* C6: the step of an upload that decodes a non-scalar band 0 stores a mask
\* of the band's length whose cell i is 1 exactly when band0[i] equals 1, and
\* 0 for every other value.
C6_DecodeThresholdsAtOne ==
    [][ \A u \in 1..Len(uploads) :
          (uploads[u].pc = "read" /\ uploads'[u].pc = "done"
              /\ ~uploads[u].file.scalar)
            => /\ floodPixelData' # {}
               /\ Len(Val(floodPixelData')) = Len(uploads[u].file.band0)
               /\ \A i \in 1..Len(uploads[u].file.band0) :
                    /\ Val(floodPixelData')[i] \in { 0, 1 }
                    /\ Val(floodPixelData')[i] = 1 <=> uploads[u].file.band0[i] = 1
      ]_vars

\* C6 witness: an upload of the band << 1, 0, 2, 255 >> has finished and the
\* stored mask is << 1, 0, 0, 0 >>.
C6_Witness ==
    \E u \in 1..Len(uploads) :
        /\ uploads[u].pc = "done"
        /\ uploads[u].file.band0 = << 1, 0, 2, 255 >>
        /\ floodPixelData = { << 1, 0, 0, 0 >> }

\* C7 (as claimed): once the upload of a raster whose band 0 is a bare number
\* and the area computation it started have finished, the failure has been
\* reported (the area display says the data is invalid) and the stored mask
\* is the one from before the upload.
C7_ScalarBandFailsExplicitly ==
    \A u \in 1..Len(uploads) :
        (/\ u = Len(uploads)
         /\ uploads[u].pc = "done"
         /\ uploads[u].file.scalar
         /\ \A a \in 1..Len(areas) : areas[a].pc # "read")
            => /\ floodAreaDisplay.kind = "Cannot calculate (invalid data)"
               /\ floodPixelData = uploads[u].cl.floodPixelData

\* C8 (as claimed): once the upload of a raster whose band 0 is a bare number
\* has finished, the stored mask, metadata, hazard bounds and overlay are
\* those of the state the upload started in.
C8_ScalarUploadRetainsPriorState ==
    \A u \in 1..Len(uploads) :
        (/\ u = Len(uploads)
         /\ uploads[u].pc \in { "done", "failed" }
         /\ uploads[u].file.scalar)
            => /\ floodPixelData = uploads[u].cl.floodPixelData
               /\ imageMetadata = uploads[u].cl.imageMetadata
               /\ floodBounds = uploads[u].cl.floodBounds
               /\ imageOverlay = uploads[u].cl.imageOverlay

\* C9 (as claimed): whenever no upload is in flight, a stored mask has length
\* width * height of the stored metadata, and the mask of every
\* classification run has length width * height of the metadata passed with it.
C9_MaskLengthMatchesMetadata ==
    /\ (/\ \A u \in 1..Len(uploads) : uploads[u].pc \in { "done", "failed" }
        /\ imageMetadata # {}
        /\ floodPixelData # {})
         => Len(Val(floodPixelData))
              = Val(imageMetadata).width * Val(imageMetadata).height
    /\ \A l \in ClassificationRuns :
         Len(RunMask(l)) = RunMeta(l).width * RunMeta(l).height

\* C10: a finished area computation has floodAreaKm2 = N * |resX * resY| /
\* 1000000, N the number of band-0 cells equal to 1; for the 4x4 raster with
\* one hazard cell and resolution (1, 1) that is 1 / 1000000.
C10_AreaIsCountTimesPixelArea ==
    \A a \in 1..Len(areas) :
        areas[a].pc = "done" =>
            LET file == Val(areas[a].cl.geoTiff)
                res  == Val(areas[a].cl.imageMetadata).resolution
                N    == Cardinality({ i \in 1..Len(file.band0) : file.band0[i] = 1 })
            IN  /\ areas[a].km2 # {}
                /\ Val(areas[a].km2).den = 1000000
                /\ Val(areas[a].km2).num = N * Abs(res[1] * res[2])
                /\ file = FileOneCell =>
                     Val(areas[a].km2) = [ num |-> 1, den |-> 1000000 ]

\* C10 witness: the area computation on the 4x4 raster with the one hazard
\* cell has finished with 1 / 1000000 km2 (displayed as 0.00).
C10_Witness ==
    \E a \in 1..Len(areas) :
        /\ areas[a].pc = "done"
        /\ Val(areas[a].cl.geoTiff) = FileOneCell
        /\ areas[a].km2 = { [ num |-> 1, den |-> 1000000 ] }
        /\ floodAreaDisplay = [ kind |-> "km2", hundredths |-> 0 ]

(***************************************************************************)
(* Vocabulary of the claims about the area estimate.  A CRS label is       *)
(* geographic when it names a degree-based reference; the only such label  *)
(* among the inputs is EPSG:4326.  At the midpoint latitude 0 the claimed  *)
(* conversion is metersPerDegLat(0) = 111132.954 - 559.822 + 1.175 =       *)
(* 110574.307 and metersPerDegLon(0) = (pi / 180) * 6378137 = 111319.49,   *)
(* so one square degree is 12309.08 km2: more than 12309, less than 12310. *)
(***************************************************************************)
Geographic(crs) == crs = "EPSG:4326"

MidLatitudeTimes2(md) == md.bounds[2] + md.bounds[4]

HazardCount(file) == Cardinality({ i \in 1..Len(file.band0) : file.band0[i] = 1 })

\* The resolution the claims call unusable: fewer than two components, or
\* both components zero.
NeedsDerived(r) == Len(r) < 2 \/ (r[1] = 0 /\ r[2] = 0)

\* The pixel area the claims call invalid: zero or not a number.
InvalidPixelArea(r) == Len(r) < 2 \/ r[1] * r[2] = 0

\* C11 (as claimed): a finished area computation on a raster whose CRS label
\* is geographic (midpoint latitude 0) has used the pixel area |resX| *
\* metersPerDegLon(0) * |resY| * metersPerDegLat(0), so its km2 value lies
\* between 12309 and 12310 times N * |resX * resY|; on every other raster it is
\* N * |resX * resY| / 1000000.
C11_PixelAreaFollowsCrs ==
    \A a \in 1..Len(areas) :
        areas[a].pc = "done" =>
            LET file   == Val(areas[a].cl.geoTiff)
                md     == Val(areas[a].cl.imageMetadata)
                planar == HazardCount(file) * Abs(md.resolution[1] * md.resolution[2])
            IN  /\ areas[a].km2 # {}
                /\ (Geographic(md.crs) /\ MidLatitudeTimes2(md) = 0) =>
                     /\ Val(areas[a].km2).num \div Val(areas[a].km2).den >= planar * 12309
                     /\ Val(areas[a].km2).num \div Val(areas[a].km2).den <= planar * 12310
                /\ ~Geographic(md.crs) =>
                     /\ Val(areas[a].km2).den = 1000000
                     /\ Val(areas[a].km2).num = planar

\* C12 (as claimed): an area computation whose pixel area is zero or not a
\* number (resolution (0, r), or a missing component) ends in a failure and
\* reports no km2 value.
C12_InvalidPixelAreaFails ==
    \A a \in 1..Len(areas) :
        (/\ areas[a].pc # "read"
         /\ Val(areas[a].cl.geoTiff).reads
         /\ ~Val(areas[a].cl.geoTiff).scalar
         /\ InvalidPixelArea(Val(areas[a].cl.imageMetadata).resolution))
            => /\ areas[a].pc # "done"
               /\ areas[a].km2 = {}

\* C13 (as claimed): the stored metadata of a raster whose supplied resolution
\* is unusable carries the derived resolution ((maxX - minX) / W,
\* (maxY - minY) / H) and is marked as derived, and a finished area
\* computation on such a raster has used the derived resolution.
C13_DerivedResolutionFallback ==
    /\ (/\ geoTiff # {}
        /\ imageMetadata # {}
        /\ NeedsDerived(Val(geoTiff).resolution))
         => LET md == Val(imageMetadata)
            IN  /\ Len(md.resolution) >= 2
                /\ md.resolution[1] * md.width = md.bounds[3] - md.bounds[1]
                /\ md.resolution[2] * md.height = md.bounds[4] - md.bounds[2]
                /\ "derived" \in DOMAIN md
    /\ \A a \in 1..Len(areas) :
         (/\ areas[a].pc = "done"
          /\ NeedsDerived(Val(areas[a].cl.geoTiff).resolution))
            => LET file == Val(areas[a].cl.geoTiff)
               IN  /\ areas[a].km2 # {}
                   /\ Val(areas[a].km2).num * file.width * file.height
                        = HazardCount(file) * Abs((file.bounds[3] - file.bounds[1])
                                                   * (file.bounds[4] - file.bounds[2]))

\* C14 (as claimed): a road load whose render holds a mask, bounds and
\* metadata with a degenerate bounding box (maxX = minX or maxY = minY) does
\* not complete a classification: mapping fails with DegenerateBounds, the
\* run is aborted and publishes no outcome for any road.
C14_DegenerateBoundsAborts ==
    \A l \in 1..Len(loads) :
        (/\ loads[l].pc = "done"
         /\ loads[l].cl.floodPixelData # {}
         /\ loads[l].cl.floodBounds # {}
         /\ loads[l].cl.imageMetadata # {}
         /\ ~ProperBox(Val(loads[l].cl.imageMetadata)))
            => ~loads[l].analysed

(***************************************************************************)
(* Vocabulary of the claims about what an upload's own road load and area  *)
(* computation deliver.  The processes of upload u are the road load and   *)
(* the area run that its handleFileChange started (field by).              *)
(***************************************************************************)
LoadsOf(u) == { l \in 1..Len(loads) : loads[l].by = u }
AreasOf(u) == { a \in 1..Len(areas) : areas[a].by = u }

\* Upload u has completed and none of its processes is still suspended.
Settled(u) ==
    /\ uploads[u].pc = "done"
    /\ \A l \in LoadsOf(u) : loads[l].pc # "fetch"
    /\ \A a \in AreasOf(u) : areas[a].pc # "read"

\* C15 (as claimed): once a completed upload's processes have settled, if its
\* area computation failed (invalid data or an exception) while its road load
\* was answered, a classification run of that load has been performed; and if
\* its road load failed, its area computation has nevertheless run to an
\* outcome that it published.
C15_AreaAndRoadsIndependent ==
    \A u \in 1..Len(uploads) :
        Settled(u) =>
            /\ (/\ \E a \in AreasOf(u) : areas[a].pc \in { "failed", "invalid" }
                /\ \E l \in LoadsOf(u) : loads[l].pc = "done")
                 => \E l \in LoadsOf(u) : l \in ClassificationRuns
            /\ (\E l \in LoadsOf(u) : loads[l].pc = "failed")
                 => \E a \in AreasOf(u) : areas[a].pc \in { "done", "invalid", "failed" }

\* The mask, bounds, metadata and road list that the classification of load
\* l was (or is being) given.
RunInputs(l, layer) ==
    << loads[l].cl.floodPixelData, loads[l].cl.floodBounds,
       loads[l].cl.imageMetadata, layer >>

\* C16: when a classification run completes right after another
\* classification run that was given the same mask, bounds, metadata and road
\* list (roadLayers still names the earlier run's layer, so its lists are the
\* published ones), it publishes the same in-hazard list and the same
\* near-hazard list, in the same order.
C16_ClassificationIdempotent ==
    [][ \A l \in 1..Len(loads) :
          (/\ loads[l].pc = "fetch"
           /\ loads'[l].pc = "done"
           /\ loads'[l].analysed
           /\ roadLayers \in ClassificationRuns
           /\ RunInputs(roadLayers, loads[roadLayers].layer)
                = RunInputs(l, loads'[l].layer))
            => /\ affectedRoads' = affectedRoads
               /\ nearFloodRoads' = nearFloodRoads
      ]_vars

\* C16 witness: two classification runs on the same inputs have completed,
\* the later one's layer is the current one, and both lists are non-empty.
C16_Witness ==
    \E l \in ClassificationRuns : \E m \in ClassificationRuns :
        /\ m < l
        /\ roadLayers = l
        /\ RunInputs(m, loads[m].layer) = RunInputs(l, loads[l].layer)
        /\ affectedRoads # << >>
        /\ nearFloodRoads # << >>

\* C17: a step in which a road load completes (with or without a
\* classification run) or an area run ends changes neither the stored tiff,
\* metadata, bounds and mask, nor the copy of them that any handler holds,
\* nor the layer of an earlier load; the features of the classified layer are
\* after the run the ones built from the Overpass answer (only the colour of
\* their map layers has changed), and the published lists hold those features.
C17_RunsLeaveInputsUnchanged ==
    [][ ((\E l \in 1..Len(loads) : loads[l].pc = "fetch" /\ loads'[l].pc = "done")
          \/ (\E a \in 1..Len(areas) : areas[a].pc = "read" /\ areas'[a].pc # "read"))
            => /\ geoTiff' = geoTiff
               /\ imageMetadata' = imageMetadata
               /\ floodBounds' = floodBounds
               /\ floodPixelData' = floodPixelData
               /\ \A u \in 1..Len(uploads) : uploads'[u] = uploads[u]
               /\ \A l \in 1..Len(loads) :
                    /\ loads'[l].cl = loads[l].cl
                    /\ loads[l].pc = "done" => loads'[l] = loads[l]
                    /\ (loads[l].pc = "fetch" /\ loads'[l].pc = "done" /\ loads'[l].analysed)
                         => /\ \E osmData \in OsmAnswers :
                                 loads'[l].layer = processOSMtoGeoJSON(osmData)
                            /\ SeqToSet(affectedRoads') \cup SeqToSet(nearFloodRoads')
                                 \subseteq SeqToSet(loads'[l].layer)
               /\ \A a \in 1..Len(areas) : areas'[a].cl = areas[a].cl
      ]_vars

\* C17 witness: the road load and the area run of one upload have both
\* completed, the load with a classification that found roads in hazard, and
\* the mask that load was given is still the thresholded band 0 of its raster.
C17_Witness ==
    \E l \in ClassificationRuns : \E a \in 1..Len(areas) :
        /\ areas[a].pc \in { "done", "invalid" }
        /\ areas[a].by = loads[l].by
        /\ loads[l].cl.geoTiff # {}
        /\ ~Val(loads[l].cl.geoTiff).scalar
        /\ RunMask(l) = floodMaskArray(Val(loads[l].cl.geoTiff).band0)
        /\ RunMeta(l) = metadataOf(Val(loads[l].cl.geoTiff))
        /\ \E i \in 1..Len(loads[l].style) : loads[l].style[i] = "#ff0000"
        /\ affectedRoads # << >>

\* Upload u is the latest one, it completed, and its raster has a per-pixel
\* band 0.
LatestRaster(u) ==
    /\ u = Len(uploads)
    /\ uploads[u].pc = "done"
    /\ ~uploads[u].file.scalar

\* C18 (as claimed): once the latest upload, of raster R, has completed and
\* no area computation is still running, the displayed flood area is the one
\* computed from R's band 0 and R's resolution.
C18_DisplayedAreaIsOwnRaster ==
    \A u \in 1..Len(uploads) :
        (/\ LatestRaster(u)
         /\ \A a \in 1..Len(areas) : areas[a].pc # "read")
            => floodAreaDisplay
                 = areaDisplay(uploads[u].file.band0, metadataOf(uploads[u].file))

\* C19 (as claimed): once the latest upload, of raster R, has completed and
\* the road load it started has been answered, that load performed a
\* classification run against R's mask, R's bounds and R's metadata, and while
\* its layer is the current one the published lists are that run's result.
C19_ClassifiedAgainstOwnRaster ==
    \A u \in 1..Len(uploads) :
        (/\ LatestRaster(u)
         /\ \A l \in LoadsOf(u) : loads[l].pc = "done")
            => \E l \in LoadsOf(u) :
                 LET file == uploads[u].file
                     mask == floodMaskArray(file.band0)
                     fb   == latLngBounds(file.bounds)
                     md   == metadataOf(file)
                 IN  /\ l \in ClassificationRuns
                     /\ loads[l].cl.floodPixelData = { mask }
                     /\ loads[l].cl.floodBounds = { fb }
                     /\ loads[l].cl.imageMetadata = { md }
                     /\ roadLayers = l =>
                          /\ affectedRoads
                               = analyzeRoadImpact(loads[l].layer, mask, fb, md).affectedRoadsList
                          /\ nearFloodRoads
                               = analyzeRoadImpact(loads[l].layer, mask, fb, md).nearFloodRoadsList

\* C20 (as claimed): when the second of two uploads of per-pixel rasters
\* started before the first had completed (the second handler's render had
\* not yet seen the first one's overlay) and both have completed, the stored
\* metadata, bounds, mask and overlay are all those of one and the same upload.
C20_OverlappingUploadsConsistent ==
    (/\ Len(uploads) = 2
     /\ \A u \in 1..2 : uploads[u].pc = "done" /\ ~uploads[u].file.scalar
     /\ uploads[2].cl.imageOverlay # 1)
        => \E u \in 1..2 :
             /\ imageMetadata = { metadataOf(uploads[u].file) }
             /\ floodBounds = { latLngBounds(uploads[u].file.bounds) }
             /\ floodPixelData = { floodMaskArray(uploads[u].file.band0) }
             /\ imageOverlay = u

\* The overlay that imageOverlay names is among the layers of the map.
OverlayOnMap == Overlay(imageOverlay) \in mapLayers

\* C21 (as claimed): after every step, while an overlay is stored,
\* overlayVisible is true exactly when that overlay is on the map; and a step
\* that flips overlayVisible (a toggleOverlay click) changes whether the
\* stored overlay is on the map.
C21_VisibleFlagMatchesMap ==
    [][ /\ imageOverlay' # 0 => (overlayVisible' <=> OverlayOnMap')
        /\ overlayVisible' # overlayVisible => (OverlayOnMap' # OverlayOnMap)
      ]_vars

\* C22 (as claimed): once no road load is waiting for its fetch, every road
\* layer on the map is the one stored in roadLayers, so at most one is on
\* the map.
C22_OneRoadLayerOnMap ==
    (\A l \in 1..Len(loads) : loads[l].pc # "fetch")
        => /\ \A l \in 1..Len(loads) : Roads(l) \in mapLayers => l = roadLayers
           /\ Cardinality({ l \in 1..Len(loads) : Roads(l) \in mapLayers }) <= 1

====
